---------------------------- MODULE Spec2Model ----------------------------
(***************************************************************************)
(* Side-stacker: the board / move model and win detector of                *)
(* shared/src/codecs.ts, and the session reducer with its effects and      *)
(* dispatcher of server/src/state.ts and the server entry point.           *)
(***************************************************************************)
EXTENDS Integers, Sequences, FiniteSets, Bags, TLC

VARIABLES
    \* --- the row driver (addPiece exercised on one row) ---
    row,        \* the Row value held by the driver
    rowCall,    \* the last addPiece call, or NoCall
    inserted,   \* history: number of insertions accepted so far
    \* --- the game driver (advance exercised on one Game) ---
    game,       \* the Game value held by the driver
    call,       \* the last advance call, or NoCall
    plies,      \* history: number of moves accepted since the opening
    accepted,   \* history: number of moves accepted since initGame()
    \* --- the server (server/src/state.ts and the entry point) ---
    state,      \* the dispatcher's `state`: the session State
    conn,       \* readyState of every WebSocket the server has accepted
    listeners,  \* per WebSocket, the subscriptions registered with ws.on
    pending,    \* sqlite3 statements issued and not yet completed
    db,         \* the database: rows of `game`, rows of `player_move`, rowid
                \* of the last insert
    last,       \* the dispatch of the last event: action, state before,
                \* effects, messages sent; NoDispatch if it dispatched nothing
    movers,     \* history: the pieces of the moves accepted in this match
    faults      \* history: number of sqlite3 statements that failed

rowVars == <<row, rowCall, inserted>>
gameVars == <<game, call, plies, accepted>>
serverVars == <<state, conn, listeners, pending, db, last, movers, faults>>
vars == <<row, rowCall, inserted, game, call, plies, accepted,
          state, conn, listeners, pending, db, last, movers, faults>>

-----------------------------------------------------------------------------
(* Bounds of the model *)

\* accepted moves explored after each opening of the game driver
MaxPlies == 2

\* WebSocket connections the server accepts in one run
MaxConns == 4

\* INSERT INTO player_move statements in flight at one time
MaxPending == 1

\* moves the session accepts in one run
MaxMoves == 7

\* sqlite3 statements that fail in one run
MaxFaults == 1

-----------------------------------------------------------------------------
(* fp-ts Option and Either, as used by the source *)

None == <<>>
Some(x) == <<x>>
isSome(o) == o # None

Left(e) == [tag |-> "Left", left |-> e]
Right(a) == [tag |-> "Right", right |-> a]
isRight(e) == e.tag = "Right"
isLeft(e) == e.tag = "Left"

NoCall == [tag |-> "NoCall"]


\* the array with the elements of the function f on 1..n, evaluated once
Array(f) == f \o <<>>

\* array.replicate(n, a): empty when n <= 0
Replicate(n, a) == Array([k \in 1..n |-> a])

\* nonEmptyArray.range(a, b)
Range(a, b) == Array([k \in 1..(b - a + 1) |-> a + k - 1])

-----------------------------------------------------------------------------
(* shared/src/codecs.ts *)

Piece == {"X", "O"}
RowSide == {"left", "right"}

\* nextPiece that hands the turn back to the piece that moved
nextPieceSame(piece) == piece

nextPiece(piece) == IF piece = "X" THEN "O" ELSE "X"

MaxRowPieces == 7

numPieces(r) == Len(r.left) + Len(r.right)

RowFullError == [tag |-> "RowFullError"]
GameOverError == [tag |-> "GameOverError"]
IncorrectPieceError(expected, actual) ==
    [tag |-> "IncorrectPieceError", expected |-> expected, actual |-> actual]

\* addPiece with the capacity test off by one (<= for <)
addPieceOffByOne(piece, side, r) ==
    IF side = "left"
    THEN IF numPieces(r) <= MaxRowPieces
         THEN Right([r EXCEPT !.left = <<piece>> \o r.left])
         ELSE Left(RowFullError)
    ELSE IF numPieces(r) <= MaxRowPieces
         THEN Right([r EXCEPT !.right = Append(r.right, piece)])
         ELSE Left(RowFullError)

addPiece(piece, side, r) ==
    IF side = "left"
    THEN IF numPieces(r) < MaxRowPieces
         THEN Right([r EXCEPT !.left = <<piece>> \o r.left])
         ELSE Left(RowFullError)
    ELSE IF numPieces(r) < MaxRowPieces
         THEN Right([r EXCEPT !.right = Append(r.right, piece)])
         ELSE Left(RowFullError)

rowIndexes == <<"row1", "row2", "row3", "row4", "row5", "row6", "row7">>
RowIndex == {rowIndexes[k] : k \in 1..Len(rowIndexes)}

EmptyRow == [left |-> <<>>, right |-> <<>>]

\* a rendering that packs the right pieces against the left ones
gridRowPacked(r) ==
    [k \in 1..Len(r.left) |-> Some(r.left[k])]
        \o [k \in 1..Len(r.right) |-> Some(r.right[k])]
        \o Replicate(MaxRowPieces - numPieces(r), None)

\* one rendered row: left pieces, then empty cells, then right pieces
gridRow(r) ==
    [k \in 1..Len(r.left) |-> Some(r.left[k])]
        \o Replicate(MaxRowPieces - numPieces(r), None)
        \o [k \in 1..Len(r.right) |-> Some(r.right[k])]

toGrid(board) ==
    Array([k \in 1..Len(rowIndexes) |-> gridRow(board[rowIndexes[k]])])

\* array.lookup(i) on the rows, array.lookup(j) on the row, then the piece
\* if one is present: None when the row or the column does not exist or the
\* cell is empty
cellAt(allRows, coord) ==
    IF coord.i >= 0 /\ coord.i < Len(allRows)
    THEN IF coord.j >= 0 /\ coord.j < Len(allRows[coord.i + 1])
         THEN allRows[coord.i + 1][coord.j + 1]
         ELSE None
    ELSE None

RECURSIVE chainPieces(_, _, _, _, _)
chainPieces(allRows, move, coord, piece, chained) ==
    IF Len(chained) = 4
    THEN Some(chained)
    ELSE IF cellAt(allRows, [i |-> coord.i + move.di, j |-> coord.j + move.dj])
                = Some(piece)
         THEN chainPieces(allRows, move,
                          [i |-> coord.i + move.di, j |-> coord.j + move.dj],
                          piece,
                          Append(chained,
                                 [i |-> coord.i + move.di, j |-> coord.j + move.dj]))
         ELSE None

\* array.comprehension([is, js], (i, j) => ({i, j})): i outer, j inner
comprehension(is, js) ==
    Array([k \in 1..(Len(is) * Len(js)) |->
            [i |-> is[((k - 1) \div Len(js)) + 1],
             j |-> js[((k - 1) % Len(js)) + 1]]])

\* filterMap keeps the occupied starting points; findFirstMap returns the
\* chain of the first of them that has one
RECURSIVE findFirstChain(_, _, _, _)
findFirstChain(allRows, move, coords, k) ==
    IF k > Len(coords)
    THEN None
    ELSE IF cellAt(allRows, coords[k]) = None
         THEN findFirstChain(allRows, move, coords, k + 1)
         ELSE IF isSome(chainPieces(allRows, move, coords[k],
                                    cellAt(allRows, coords[k])[1], <<coords[k]>>))
              THEN chainPieces(allRows, move, coords[k],
                               cellAt(allRows, coords[k])[1], <<coords[k]>>)
              ELSE findFirstChain(allRows, move, coords, k + 1)

checkDirection(allRows, move, coords) == findFirstChain(allRows, move, coords, 1)

\* the starting points of each direction
rowStarts == comprehension(Range(0, 6), Range(0, 3))
columnStarts == comprehension(Range(0, 3), Range(0, 6))
rightDiagonalStarts == comprehension(Range(0, 3), Range(0, 3))
leftDiagonalStarts == comprehension(Range(0, 3), Range(3, 6))

checkRows(allRows) == checkDirection(allRows, [di |-> 0, dj |-> 1], rowStarts)

\* checkColumns scanning from the starting points of the rows: the columns
\* 4 to 6 are never looked at
checkColumnsFromRowStarts(allRows) ==
    checkDirection(allRows, [di |-> 1, dj |-> 0], rowStarts)

checkColumns(allRows) ==
    checkDirection(allRows, [di |-> 1, dj |-> 0], columnStarts)

checkRightDiagonal(allRows) ==
    checkDirection(allRows, [di |-> 1, dj |-> 1], rightDiagonalStarts)

checkLeftDiagonal(allRows) ==
    checkDirection(allRows, [di |-> 1, dj |-> -1], leftDiagonalStarts)

\* connectedFour without the down-left diagonal scan
connectedFourNoLeftDiagonal(board) ==
    LET allRows == toGrid(board)
    IN  \/ isSome(checkRows(allRows))
        \/ isSome(checkColumns(allRows))
        \/ isSome(checkRightDiagonal(allRows))

connectedFour(board) ==
    LET allRows == toGrid(board)
    IN  \/ isSome(checkRows(allRows))
        \/ isSome(checkColumns(allRows))
        \/ isSome(checkRightDiagonal(allRows))
        \/ isSome(checkLeftDiagonal(allRows))

Playing(board, piece) == [tag |-> "Playing", board |-> board, playingPiece |-> piece]
Over(board, piece) == [tag |-> "Over", board |-> board, winner |-> piece]

Move == [row : RowIndex, side : RowSide]

\* advance inserting into the row before it looks at whose turn it is
advanceRowFirst(g, piece, move) ==
    IF g.tag = "Playing"
    THEN LET added == addPiece(g.playingPiece, move.side, g.board[move.row])
         IN  IF isRight(added)
             THEN IF piece = g.playingPiece
                  THEN LET newBoard == [g.board EXCEPT ![move.row] = added.right]
                       IN  IF connectedFour(newBoard)
                           THEN Right(Over(newBoard, g.playingPiece))
                           ELSE Right(Playing(newBoard, nextPiece(g.playingPiece)))
                  ELSE Left(IncorrectPieceError(g.playingPiece, piece))
             ELSE added
    ELSE Left(GameOverError)

\* advance, but a move into a full row passes the turn
advancePassesOnFullRow(g, piece, move) ==
    IF g.tag = "Playing"
    THEN IF piece = g.playingPiece
         THEN LET added == addPiece(g.playingPiece, move.side, g.board[move.row])
              IN  IF isRight(added)
                  THEN LET newBoard == [g.board EXCEPT ![move.row] = added.right]
                       IN  IF connectedFour(newBoard)
                           THEN Right(Over(newBoard, g.playingPiece))
                           ELSE Right(Playing(newBoard, nextPiece(g.playingPiece)))
                  ELSE Right(Playing(g.board, nextPiece(g.playingPiece)))
         ELSE Left(IncorrectPieceError(g.playingPiece, piece))
    ELSE Left(GameOverError)

\* advance, but a finished game takes the winner's further moves as no-ops
advanceAfterOver(g, piece, move) ==
    IF g.tag = "Playing"
    THEN IF piece = g.playingPiece
         THEN LET added == addPiece(g.playingPiece, move.side, g.board[move.row])
              IN  IF isRight(added)
                  THEN LET newBoard == [g.board EXCEPT ![move.row] = added.right]
                       IN  IF connectedFour(newBoard)
                           THEN Right(Over(newBoard, g.playingPiece))
                           ELSE Right(Playing(newBoard, nextPiece(g.playingPiece)))
                  ELSE added
         ELSE Left(IncorrectPieceError(g.playingPiece, piece))
    ELSE IF piece = g.winner THEN Right(g) ELSE Left(GameOverError)

advance(g, piece, move) ==
    IF g.tag = "Playing"
    THEN IF piece = g.playingPiece
         THEN LET added == addPiece(g.playingPiece, move.side, g.board[move.row])
              IN  IF isRight(added)
                  THEN LET newBoard == [g.board EXCEPT ![move.row] = added.right]
                       IN  IF connectedFour(newBoard)
                           THEN Right(Over(newBoard, g.playingPiece))
                           ELSE Right(Playing(newBoard, nextPiece(g.playingPiece)))
                  ELSE added
         ELSE Left(IncorrectPieceError(g.playingPiece, piece))
    ELSE Left(GameOverError)

initGame == Playing([r \in RowIndex |-> EmptyRow], "X")
-----------------------------------------------------------------------------
(* shared: parseJson and decode(moveCodec)                                 *)
(*                                                                         *)
(* A raw payload is either text that JSON.parse rejects or the text of a   *)
(* JSON object, given by the fields it carries.                            *)

NotJson == [json |-> FALSE]
JsonObject(fields) == [json |-> TRUE, value |-> fields]

JsonParseError == [tag |-> "JsonParseError", parseError |-> "JSON parse failed"]
DecodeError(u) == [tag |-> "DecodeError", decodeError |-> u]

parseJson(text) == IF text.json THEN Right(text.value) ELSE Left(JsonParseError)

\* a decoder that takes a row that is no row for row1
decodeMoveDefaultsRow(u) ==
    IF /\ "row" \in DOMAIN u
       /\ "side" \in DOMAIN u
       /\ u["side"] \in {"left", "right"}
    THEN Right([row |-> IF u["row"] \in {"row1", "row2", "row3", "row4",
                                         "row5", "row6", "row7"}
                        THEN u["row"]
                        ELSE "row1",
                side |-> u["side"]])
    ELSE Left([tag |-> "DecodeError", decodeError |-> u])

\* moveCodec.decode: an object whose row is a key of board and whose side is
\* a key of row
decodeMove(u) ==
    IF /\ "row" \in DOMAIN u
       /\ "side" \in DOMAIN u
       /\ u["row"] \in RowIndex
       /\ u["side"] \in RowSide
    THEN Right([row |-> u["row"], side |-> u["side"]])
    ELSE Left(DecodeError(u))

showApiError(err) ==
    IF err.tag = "JsonParseError"
    THEN <<"JsonParseError: ", err.parseError>>
    ELSE <<"DecodeError: ", err.decodeError>>

showAdvanceError(error) ==
    CASE error.tag = "RowFullError" -> <<"Row is full">>
      [] error.tag = "GameOverError" -> <<"Game is over">>
      [] error.tag = "IncorrectPieceError" ->
            <<"Incorrect piece. Expected ", error.expected, ", got ", error.actual>>

-----------------------------------------------------------------------------
(* server/src/state.ts: State, Action, Effect and the reducer              *)
(*                                                                         *)
(* Every State carries the same db handle; the model leaves the field out. *)
(* An Effect is kept as data: its kind and the values its closure holds.   *)

Empty == [tag |-> "Empty"]
WaitingForOpponent(x) == [tag |-> "WaitingForOpponent", playerX |-> x]
Ready(x, o) == [tag |-> "Ready", playerX |-> x, playerO |-> o]
Started(x, o, g, id) ==
    [tag |-> "Started", playerX |-> x, playerO |-> o, game |-> g, gameId |-> id]

PlayerJoined(ws) == [tag |-> "PlayerJoined", player |-> ws]
PlayerLeft(piece) == [tag |-> "PlayerLeft", playerPiece |-> piece]
GameStarted(g, id) == [tag |-> "GameStarted", game |-> g, gameId |-> id]
MessageReceived(piece, data) ==
    [tag |-> "MessageReceived", playerPiece |-> piece, data |-> data]

logError(error) == [eff |-> "logError", text |-> error]
logDebug(message) == [eff |-> "logDebug", text |-> message]
send(message, ws) == [eff |-> "send", message |-> message, ws |-> ws]
broadcast(message) == [eff |-> "broadcast", message |-> message]
subscribe(piece, ws) == [eff |-> "subscribe", playerPiece |-> piece, ws |-> ws]
startGame == [eff |-> "startGame"]
saveMove(gameId, move, piece) ==
    [eff |-> "saveMove", gameId |-> gameId, move |-> move, piece |-> piece]

Connected(piece) == [tag |-> "Connected", piece |-> piece]
OpponentLeft == [tag |-> "OpponentLeft"]
GameUpdate(g) == [tag |-> "GameUpdate", game |-> g]

\* join, but the game is requested before the second player is told its piece
joinStartsFirst(ws, st) ==
    CASE st.tag = "Empty" ->
            Right(<<WaitingForOpponent(ws),
                    <<send(Connected("X"), ws),
                      logDebug(<<"First player joined. Waiting for the second player...">>)>> >>)
      [] st.tag = "WaitingForOpponent" ->
            Right(<<Ready(st.playerX, ws),
                    <<startGame,
                      send(Connected("O"), ws),
                      logDebug(<<"Second player joined. Starting game...">>)>> >>)
      [] st.tag \in {"Ready", "Started"} ->
            Left(<<"Game already started">>)

\* join, but a peer that arrives while a pair is held is told it plays O
joinGreetsLatecomer(ws, st) ==
    CASE st.tag = "Empty" ->
            Right(<<WaitingForOpponent(ws),
                    <<send(Connected("X"), ws),
                      logDebug(<<"First player joined. Waiting for the second player...">>)>> >>)
      [] st.tag = "WaitingForOpponent" ->
            Right(<<Ready(st.playerX, ws),
                    <<send(Connected("O"), ws),
                      startGame,
                      logDebug(<<"Second player joined. Starting game...">>)>> >>)
      [] st.tag \in {"Ready", "Started"} ->
            Right(<<st, <<send(Connected("O"), ws)>> >>)

join(ws, st) ==
    CASE st.tag = "Empty" ->
            Right(<<WaitingForOpponent(ws),
                    <<send(Connected("X"), ws),
                      logDebug(<<"First player joined. Waiting for the second player...">>)>> >>)
      [] st.tag = "WaitingForOpponent" ->
            Right(<<Ready(st.playerX, ws),
                    <<send(Connected("O"), ws),
                      startGame,
                      logDebug(<<"Second player joined. Starting game...">>)>> >>)
      [] st.tag \in {"Ready", "Started"} ->
            Left(<<"Game already started">>)

\* move, but played with the piece whose turn it is, whoever sent the message
moveAnyPiece(playerPiece, st, mv) ==
    CASE st.tag = "Empty" -> Left(<<"No players connected">>)
      [] st.tag = "WaitingForOpponent" -> Left(<<"Waiting for opponent">>)
      [] st.tag = "Ready" -> Left(<<"Game not started yet">>)
      [] st.tag = "Started" ->
            LET mover == IF st.game.tag = "Playing"
                         THEN st.game.playingPiece
                         ELSE playerPiece
                res == advance(st.game, mover, mv)
            IN  IF isRight(res)
                THEN Right(<<[st EXCEPT !.game = res.right],
                             <<saveMove(st.gameId, mv, mover),
                               broadcast(GameUpdate(res.right))>> >>)
                ELSE Left(showAdvanceError(res.left))

\* move, but the broadcast carries the game as it was before the move
moveBroadcastsOld(playerPiece, st, mv) ==
    CASE st.tag = "Empty" -> Left(<<"No players connected">>)
      [] st.tag = "WaitingForOpponent" -> Left(<<"Waiting for opponent">>)
      [] st.tag = "Ready" -> Left(<<"Game not started yet">>)
      [] st.tag = "Started" ->
            LET res == advance(st.game, playerPiece, mv)
            IN  IF isRight(res)
                THEN Right(<<[st EXCEPT !.game = res.right],
                             <<saveMove(st.gameId, mv, playerPiece),
                               broadcast(GameUpdate(st.game))>> >>)
                ELSE Left(showAdvanceError(res.left))

move(playerPiece, st, mv) ==
    CASE st.tag = "Empty" -> Left(<<"No players connected">>)
      [] st.tag = "WaitingForOpponent" -> Left(<<"Waiting for opponent">>)
      [] st.tag = "Ready" -> Left(<<"Game not started yet">>)
      [] st.tag = "Started" ->
            LET res == advance(st.game, playerPiece, mv)
            IN  IF isRight(res)
                THEN Right(<<[st EXCEPT !.game = res.right],
                             <<saveMove(st.gameId, mv, playerPiece),
                               broadcast(GameUpdate(res.right))>> >>)
                ELSE Left(showAdvanceError(res.left))

\* either.fold((e) => [state, [logError(e)]], identity)
foldReject(st, res) == IF isRight(res) THEN res.right ELSE <<st, <<logError(res.left)>> >>

\* update, but the player who left is the one told that the opponent left
updateNotifiesLeaver(action, st) ==
    CASE action.tag = "PlayerJoined" -> foldReject(st, join(action.player, st))
      [] action.tag = "PlayerLeft" ->
            IF st.tag = "Started"
            THEN <<Empty,
                   <<logDebug(<<"Player ", action.playerPiece, " left the game">>),
                     send(OpponentLeft,
                          IF action.playerPiece = "X" THEN st.playerX ELSE st.playerO)>> >>
            ELSE <<Empty, <<>> >>
      [] action.tag = "GameStarted" ->
            IF st.tag = "Ready"
            THEN <<Started(st.playerX, st.playerO, action.game, action.gameId),
                   <<subscribe("X", st.playerX),
                     subscribe("O", st.playerO),
                     broadcast(GameUpdate(action.game))>> >>
            ELSE <<st, <<logError(<<"Game is not ready to be started">>)>> >>
      [] action.tag = "MessageReceived" ->
            LET parsed == parseJson(action.data)
                decoded == IF isRight(parsed) THEN decodeMove(parsed.right) ELSE parsed
                shown == IF isRight(decoded)
                         THEN decoded
                         ELSE Left(showApiError(decoded.left))
                moved == IF isRight(shown)
                         THEN move(action.playerPiece, st, shown.right)
                         ELSE shown
            IN  foldReject(st, moved)

\* update, but a peer that joins a running match takes the session over
updateLatecomerTakesOver(action, st) ==
    CASE action.tag = "PlayerJoined" ->
            IF st.tag = "Started"
            THEN <<WaitingForOpponent(action.player),
                   <<send(Connected("X"), action.player)>> >>
            ELSE foldReject(st, join(action.player, st))
      [] action.tag = "PlayerLeft" ->
            IF st.tag = "Started"
            THEN <<Empty,
                   <<logDebug(<<"Player ", action.playerPiece, " left the game">>),
                     send(OpponentLeft,
                          IF action.playerPiece = "X" THEN st.playerO ELSE st.playerX)>> >>
            ELSE <<Empty, <<>> >>
      [] action.tag = "GameStarted" ->
            IF st.tag = "Ready"
            THEN <<Started(st.playerX, st.playerO, action.game, action.gameId),
                   <<subscribe("X", st.playerX),
                     subscribe("O", st.playerO),
                     broadcast(GameUpdate(action.game))>> >>
            ELSE <<st, <<logError(<<"Game is not ready to be started">>)>> >>
      [] action.tag = "MessageReceived" ->
            LET parsed == parseJson(action.data)
                decoded == IF isRight(parsed) THEN decodeMove(parsed.right) ELSE parsed
                shown == IF isRight(decoded)
                         THEN decoded
                         ELSE Left(showApiError(decoded.left))
                moved == IF isRight(shown)
                         THEN move(action.playerPiece, st, shown.right)
                         ELSE shown
            IN  foldReject(st, moved)

update(action, st) ==
    CASE action.tag = "PlayerJoined" -> foldReject(st, join(action.player, st))
      [] action.tag = "PlayerLeft" ->
            IF st.tag = "Started"
            THEN <<Empty,
                   <<logDebug(<<"Player ", action.playerPiece, " left the game">>),
                     send(OpponentLeft,
                          IF action.playerPiece = "X" THEN st.playerO ELSE st.playerX)>> >>
            ELSE <<Empty, <<>> >>
      [] action.tag = "GameStarted" ->
            IF st.tag = "Ready"
            THEN <<Started(st.playerX, st.playerO, action.game, action.gameId),
                   <<subscribe("X", st.playerX),
                     subscribe("O", st.playerO),
                     broadcast(GameUpdate(action.game))>> >>
            ELSE <<st, <<logError(<<"Game is not ready to be started">>)>> >>
      [] action.tag = "MessageReceived" ->
            LET parsed == parseJson(action.data)
                decoded == IF isRight(parsed) THEN decodeMove(parsed.right) ELSE parsed
                shown == IF isRight(decoded)
                         THEN decoded
                         ELSE Left(showApiError(decoded.left))
                moved == IF isRight(shown)
                         THEN move(action.playerPiece, st, shown.right)
                         ELSE shown
            IN  foldReject(st, moved)

-----------------------------------------------------------------------------
(* server/src/state.ts: what each Effect does when the dispatcher runs it  *)
(*                                                                         *)
(* An effect reads the state it is handed and the readyState of sockets;   *)
(* it writes to sockets, registers listeners and issues sqlite3 statements.*)
(* m = [listeners, pending, sent] is what the effects change.              *)

\* ws.send(JSON.stringify(message)) when the socket is open
sendIfOpen(message, ws, cn, m) ==
    IF cn[ws] = "OPEN"
    THEN [m EXCEPT !.sent = Append(@, [to |-> ws, message |-> message])]
    ELSE m

runBroadcast(e, st, cn, m) ==
    CASE st.tag = "Empty" -> m
      [] st.tag = "WaitingForOpponent" -> sendIfOpen(e.message, st.playerX, cn, m)
      [] st.tag = "Started" ->
            sendIfOpen(e.message, st.playerO, cn,
                       sendIfOpen(e.message, st.playerX, cn, m))
      [] OTHER -> m

\* INSERT INTO player_move (game_id, piece, side) VALUES (?, ?, ?)
runSaveMove(e, m) ==
    [m EXCEPT !.pending =
        Append(@, [op |-> "insertMove", game_id |-> e.gameId,
                   piece |-> e.piece, side |-> e.move.side])]

\* INSERT INTO game DEFAULT VALUES
runStartGame(m) == [m EXCEPT !.pending = Append(@, [op |-> "insertGame"])]

\* ws.on("message", ...) and ws.on("close", ...), both tagged playerPiece
runSubscribe(e, m) ==
    [m EXCEPT !.listeners[e.ws] = Append(@, e.playerPiece)]

runEffect(e, st, cn, m) ==
    CASE e.eff \in {"logError", "logDebug"} -> m
      [] e.eff = "send" -> sendIfOpen(e.message, e.ws, cn, m)
      [] e.eff = "broadcast" -> runBroadcast(e, st, cn, m)
      [] e.eff = "subscribe" -> runSubscribe(e, m)
      [] e.eff = "startGame" -> runStartGame(m)
      [] e.eff = "saveMove" -> runSaveMove(e, m)

\* effects.forEach((effect) => effect(state, dispatch))
RECURSIVE runEffects(_, _, _, _, _)
runEffects(effects, k, st, cn, m) ==
    IF k > Len(effects)
    THEN m
    ELSE runEffects(effects, k + 1, st, cn, runEffect(effects[k], st, cn, m))

-----------------------------------------------------------------------------
(* the entry point: the dispatcher                                         *)
(*                                                                         *)
(* S = [state, listeners, pending, last] is what one dispatch changes.     *)

\* a dispatcher that hands the effects the state of before the transition
dispatchStaleState(action, cn, S) ==
    LET r == update(action, S.state)
        m == runEffects(r[2], 1, S.state, cn,
                        [listeners |-> S.listeners, pending |-> S.pending,
                         sent |-> <<>>])
    IN  [state |-> r[1],
         listeners |-> m.listeners,
         pending |-> m.pending,
         last |-> [action |-> action, pre |-> S.state,
                   effects |-> r[2], sent |-> m.sent, from |-> 0]]

\* a dispatcher whose startGame calls back at once: update is entered for
\* GameStarted while the effects of the join are still running
dispatchReentrant(action, cn, S) ==
    LET r == update(action, S.state)
        inner == IF \E k \in 1..Len(r[2]) : r[2][k].eff = "startGame"
                 THEN update(GameStarted(initGame, 1), r[1])
                 ELSE <<r[1], <<>> >>
        m == runEffects(r[2] \o inner[2], 1, inner[1], cn,
                        [listeners |-> S.listeners, pending |-> S.pending,
                         sent |-> <<>>])
    IN  [state |-> inner[1],
         listeners |-> m.listeners,
         pending |-> m.pending,
         last |-> [action |-> action, pre |-> S.state,
                   effects |-> r[2], sent |-> m.sent, from |-> 0]]

dispatch(action, cn, S) ==
    LET r == update(action, S.state)
        m == runEffects(r[2], 1, r[1], cn,
                        [listeners |-> S.listeners, pending |-> S.pending,
                         sent |-> <<>>])
    IN  [state |-> r[1],
         listeners |-> m.listeners,
         pending |-> m.pending,
         last |-> [action |-> action, pre |-> S.state,
                   effects |-> r[2], sent |-> m.sent, from |-> 0]]

\* one event delivered to the listeners of a socket, in registration order
RECURSIVE dispatchAll(_, _, _, _)
dispatchAll(actions, k, cn, S) ==
    IF k > Len(actions)
    THEN S
    ELSE dispatchAll(actions, k + 1, cn, dispatch(actions[k], cn, S))

NoDispatch == [action |-> [tag |-> "None"], pre |-> Empty,
               effects |-> <<>>, sent |-> <<>>, from |-> 0]

\* the server as an event finds it
Server == [state |-> state, listeners |-> listeners, pending |-> pending,
           last |-> NoDispatch]

\* moves accepted so far: the rows of player_move and the inserts in flight
\* the INSERT INTO player_move statements in flight
movesPending(q) == Cardinality({k \in 1..Len(q) : q[k].op = "insertMove"})

movesAccepted(q) == BagCardinality(db.moves) + movesPending(q)

\* the pieces of the moves accepted in the match, after a dispatch
moversAfter(S) ==
    IF S.state.tag # "Started" \/ S.last.pre.tag # "Started"
    THEN <<>>
    ELSE IF S.state.game # S.last.pre.game
         THEN Append(movers, S.last.action.playerPiece)
         ELSE movers

\* the server after the event of socket ws (0: the database): S is the result
\* of the dispatches the event caused
Becomes(S, ws) ==
    /\ movesPending(S.pending) <= MaxPending
    /\ movesAccepted(S.pending) <= MaxMoves
    /\ state' = S.state
    /\ listeners' = S.listeners
    /\ pending' = S.pending
    /\ last' = [S.last EXCEPT !.from = ws]
    /\ movers' = IF S.last.action.tag = "None" THEN movers ELSE moversAfter(S)

Sockets == 1..MaxConns

\* no callback is running: the event loop is free to deliver the next event
Idle == last = NoDispatch


\* let state: State = { tag: "Empty", db }
Init ==
    /\ row = EmptyRow
    /\ rowCall = NoCall
    /\ inserted = 0
    /\ game = initGame
    /\ call = NoCall
    /\ plies = 0
    /\ accepted = 0
    /\ state = Empty
    /\ conn = [ws \in Sockets |-> "absent"]
    /\ listeners = [ws \in Sockets |-> <<>>]
    /\ pending = <<>>
    /\ db = [games |-> 0, moves |-> EmptyBag, rowid |-> 0]
    /\ last = NoDispatch
    /\ movers = <<>>
    /\ faults = 0

\* payloads the client behind a socket sends: one move, into row1 for every
\* other client and into row2 for the rest, and one payload that is not a
\* Move: text that is not JSON, a row that is no row, or a side that is no side
ValidData(ws) ==
    JsonObject([row |-> IF ws % 2 = 1 THEN "row1" ELSE "row2", side |-> "left"])

InvalidData(ws) ==
    CASE ws % 3 = 1 -> NotJson
      [] ws % 3 = 2 -> JsonObject([row |-> "row8", side |-> "left"])
      [] OTHER -> JsonObject([row |-> "row1", side |-> "up"])

RawData(ws) == {InvalidData(ws), ValidData(ws)}

\* wss.on("connection", (ws) => dispatch({tag: "PlayerJoined", player: ws}))
Connection(ws) ==
    /\ Idle
    /\ conn[ws] = "absent"
    /\ \A w \in Sockets : w < ws => conn[w] # "absent"
    /\ conn' = [conn EXCEPT ![ws] = "OPEN"]
    /\ \E S \in {dispatch(PlayerJoined(ws), conn', Server)} : Becomes(S, ws)
    /\ UNCHANGED <<db, faults, rowVars, gameVars>>

\* a "message" event of an open socket that has listeners
WsMessage(ws, data) ==
    /\ Idle
    /\ conn[ws] = "OPEN"
    /\ listeners[ws] # <<>>
    /\ \E S \in {dispatchAll([k \in 1..Len(listeners[ws]) |->
                                 MessageReceived(listeners[ws][k], data)],
                              1, conn, Server)} : Becomes(S, ws)
    /\ UNCHANGED <<conn, db, faults, rowVars, gameVars>>

\* the "close" event of a socket: readyState is CLOSED when listeners run
WsClose(ws) ==
    /\ Idle
    /\ conn[ws] = "OPEN"
    /\ conn' = [conn EXCEPT ![ws] = "CLOSED"]
    /\ \E S \in {dispatchAll([k \in 1..Len(listeners[ws]) |->
                                 PlayerLeft(listeners[ws][k])],
                              1, conn', Server)} : Becomes(S, ws)
    /\ UNCHANGED <<db, faults, rowVars, gameVars>>

RemoveAt(q, k) == [j \in 1..(Len(q) - 1) |-> IF j < k THEN q[j] ELSE q[j + 1]]

\* db.run("INSERT INTO game DEFAULT VALUES", cb) completes without error:
\* the callback issues SELECT last_insert_rowid()
DbInsertGame(k) ==
    /\ Idle
    /\ k \in 1..Len(pending)
    /\ pending[k].op = "insertGame"
    /\ db' = [db EXCEPT !.games = @ + 1, !.rowid = db.games + 1]
    /\ pending' = Append(RemoveAt(pending, k), [op |-> "selectRowid"])
    /\ last' = NoDispatch
    /\ UNCHANGED <<state, conn, listeners, movers, faults, rowVars, gameVars>>

\* the SELECT completes: the callback dispatches GameStarted
DbSelectRowid(k) ==
    /\ Idle
    /\ k \in 1..Len(pending)
    /\ pending[k].op = "selectRowid"
    /\ \E S \in {dispatch(GameStarted(initGame, db.rowid), conn,
                           [Server EXCEPT !.pending = RemoveAt(pending, k)])} :
            Becomes(S, 0)
    /\ UNCHANGED <<conn, db, faults, rowVars, gameVars>>

\* the INSERT INTO player_move completes: the finalize callback only logs
DbInsertMove(k) ==
    /\ Idle
    /\ k \in 1..Len(pending)
    /\ pending[k].op = "insertMove"
    /\ db' = [db EXCEPT !.moves = @ (+) SetToBag({[game_id |-> pending[k].game_id,
                                                    piece |-> pending[k].piece,
                                                    side |-> pending[k].side]}),
                       !.rowid = BagCardinality(db.moves) + 1]
    /\ pending' = RemoveAt(pending, k)
    /\ last' = NoDispatch
    /\ UNCHANGED <<state, conn, listeners, movers, faults, rowVars, gameVars>>

\* a failure that takes the match back to the opening position
DbFailsRollsBack(k) ==
    /\ Idle
    /\ faults < MaxFaults
    /\ k \in 1..Len(pending)
    /\ pending' = RemoveAt(pending, k)
    /\ faults' = faults + 1
    /\ last' = [NoDispatch EXCEPT !.action = [tag |-> "None", failed |-> pending[k]]]
    /\ state' = IF state.tag = "Started" /\ pending[k].op = "insertMove"
                THEN [state EXCEPT !.game = initGame]
                ELSE state
    /\ UNCHANGED <<conn, listeners, db, movers, rowVars, gameVars>>

\* a statement fails: each callback of startGame and saveMove only logs the
\* error (console.error) and dispatches nothing
DbFails(k) ==
    /\ Idle
    /\ faults < MaxFaults
    /\ k \in 1..Len(pending)
    /\ pending' = RemoveAt(pending, k)
    /\ faults' = faults + 1
    /\ last' = [NoDispatch EXCEPT !.action = [tag |-> "None", failed |-> pending[k]]]
    /\ UNCHANGED <<state, conn, listeners, db, movers, rowVars, gameVars>>

\* the callback returns to the event loop; what it dispatched is history
Return ==
    /\ ~Idle
    /\ last' = NoDispatch
    /\ UNCHANGED <<state, conn, listeners, pending, db, movers, faults,
                   rowVars, gameVars>>

Next ==
    \/ \E ws \in Sockets : Connection(ws)
    \/ \E ws \in Sockets : \E data \in RawData(ws) : WsMessage(ws, data)
    \/ \E ws \in Sockets : WsClose(ws)
    \/ \E k \in 1..Len(pending) : DbInsertGame(k)
    \/ \E k \in 1..Len(pending) : DbSelectRowid(k)
    \/ \E k \in 1..Len(pending) : DbInsertMove(k)
    \/ Return

Spec == Init /\ [][Next]_vars

\* the server with a database whose statements can fail, while no peer
\* disconnects
NextFaults ==
    \/ \E ws \in Sockets : Connection(ws)
    \/ \E ws \in Sockets : \E data \in RawData(ws) : WsMessage(ws, data)
    \/ \E k \in 1..Len(pending) : DbInsertGame(k)
    \/ \E k \in 1..Len(pending) : DbSelectRowid(k)
    \/ \E k \in 1..Len(pending) : DbInsertMove(k)
    \/ \E k \in 1..Len(pending) : DbFails(k)
    \/ Return

SpecFaults == Init /\ [][NextFaults]_vars

-----------------------------------------------------------------------------
(* The row driver: addPiece applied again and again to one row, starting   *)
(* from the empty row, each piece and side chosen freely.  A behaviour     *)
(* drives the row or the game, not both.                                   *)

Insert(piece, side) ==
    /\ call.tag = "NoCall"
    /\ \E res \in {addPiece(piece, side, row)} :
        /\ rowCall' = [tag |-> "addPiece", row |-> row, piece |-> piece,
                       side |-> side, result |-> res]
        /\ row' = IF isRight(res) THEN res.right ELSE row
        /\ inserted' = IF isRight(res) THEN inserted + 1 ELSE inserted
        /\ UNCHANGED <<gameVars, serverVars>>

NextRow == \E piece \in Piece, side \in RowSide : Insert(piece, side)

-----------------------------------------------------------------------------
(* The game driver: advance applied again and again to one game.  The game *)
(* starts at initGame() or at a position reached from it by replaying one  *)
(* of the openings below through advance; from there every piece and every *)
(* move is tried, MaxPlies accepted moves deep.                            *)

M(r, s) == [row |-> r, side |-> s]

OpenEmpty == <<>>

\* X X X in row1, O O O in row2, X to move
OpenRowRun ==
    <<M("row1", "left"), M("row2", "left"), M("row1", "left"),
      M("row2", "left"), M("row1", "left"), M("row2", "left")>>

\* X in column 0 of rows 1-3, O in column 6 of rows 1-3, X to move
OpenColumnRun ==
    <<M("row1", "left"), M("row1", "right"), M("row2", "left"),
      M("row2", "right"), M("row3", "left"), M("row3", "right")>>

\* X at (0,0), (1,1), (2,2) and at (3,2), one left push short of (3,3)
OpenRightDiagonal ==
    <<M("row2", "left"), M("row2", "left"), M("row3", "left"),
      M("row3", "left"), M("row4", "left"), M("row3", "left"),
      M("row1", "left"), M("row4", "left"), M("row7", "right"),
      M("row4", "left")>>

\* the mirror image: X at (0,6), (1,5), (2,4) and at (3,4)
OpenLeftDiagonal ==
    <<M("row2", "right"), M("row2", "right"), M("row3", "right"),
      M("row3", "right"), M("row4", "right"), M("row3", "right"),
      M("row1", "right"), M("row4", "right"), M("row7", "left"),
      M("row4", "right")>>

\* row1 holds six pieces O X O X O X, X to move
OpenFullRow ==
    <<M("row1", "left"), M("row1", "left"), M("row1", "left"),
      M("row1", "left"), M("row1", "left"), M("row1", "left")>>

\* row1 is X X _ X X O O, X to move
OpenFiveRun ==
    <<M("row1", "left"), M("row7", "left"), M("row1", "left"),
      M("row7", "left"), M("row1", "right"), M("row7", "right"),
      M("row1", "right"), M("row1", "right"), M("row6", "left"),
      M("row1", "right")>>

\* O in column 0 of row1 and in column 1 of rows 2-4, X to move
OpenShift ==
    <<M("row7", "right"), M("row2", "left"), M("row2", "left"),
      M("row4", "left"), M("row4", "left"), M("row3", "left"),
      M("row7", "right"), M("row3", "left"), M("row6", "right"),
      M("row1", "left")>>

Openings ==
    {OpenEmpty, OpenRowRun, OpenColumnRun, OpenRightDiagonal, OpenLeftDiagonal,
     OpenFullRow, OpenFiveRun, OpenShift}

\* the game after the moves of an opening, each made by the piece to move;
\* a rejected move ends the replay with the rejection
RECURSIVE Replay(_, _, _)
Replay(g, moves, k) ==
    IF k > Len(moves)
    THEN Right(g)
    ELSE IF g.tag # "Playing"
         THEN Left(GameOverError)
         ELSE LET res == advance(g, g.playingPiece, moves[k])
              IN  IF isRight(res) THEN Replay(res.right, moves, k + 1) ELSE res

OpeningGames ==
    {Replay(initGame, o, 1).right :
        o \in {p \in Openings : isRight(Replay(initGame, p, 1))}}

InitGame ==
    /\ row = EmptyRow
    /\ rowCall = NoCall
    /\ inserted = 0
    /\ \E o \in Openings :
        /\ isRight(Replay(initGame, o, 1))
        /\ game = Replay(initGame, o, 1).right
        /\ accepted = Len(o)
    /\ call = NoCall
    /\ plies = 0
    /\ state = Empty
    /\ conn = [ws \in Sockets |-> "absent"]
    /\ listeners = [ws \in Sockets |-> <<>>]
    /\ pending = <<>>
    /\ db = [games |-> 0, moves |-> EmptyBag, rowid |-> 0]
    /\ last = NoDispatch
    /\ movers = <<>>
    /\ faults = 0

\* A rejected call leaves the driver's game as it was, so the calls that could
\* follow it are the calls that could have been made in its place: the driver
\* goes on only from the opening and from accepted calls.
Advance(piece, mv) ==
    /\ rowCall.tag = "NoCall"
    /\ IF call.tag = "NoCall" THEN TRUE ELSE isRight(call.result)
    /\ (game.tag = "Playing" /\ piece = game.playingPiece) => plies < MaxPlies
    /\ \E res \in {advance(game, piece, mv)} :
        /\ call' = [tag |-> "advance", game |-> game, piece |-> piece,
                    move |-> mv, result |-> res]
        /\ game' = IF isRight(res) THEN res.right ELSE game
        /\ plies' = IF isRight(res) THEN plies + 1 ELSE plies
        /\ accepted' = IF isRight(res) THEN accepted + 1 ELSE accepted
        /\ UNCHANGED <<rowVars, serverVars>>

NextGame == \E piece \in Piece, mv \in Move : Advance(piece, mv)

SpecGame == InitGame /\ [][NextGame]_vars

\* the row and the boards of the games, under the two drivers
SpecBoard == InitGame /\ [][NextRow \/ NextGame]_vars

\* The game driver through the reducer: the driver's game is the game of a
\* Started session of the sockets 1 (X) and 2 (O), and a move reaches it as
\* the MessageReceived that the listener of its sender dispatches.
MoveText(mv) == JsonObject([row |-> mv.row, side |-> mv.side])

DriverSession(g) == Started(1, 2, g, 1)

Receive(piece, mv) ==
    /\ rowCall.tag = "NoCall"
    /\ IF call.tag = "NoCall" THEN TRUE ELSE call.state.game # call.game
    /\ (game.tag = "Playing" /\ piece = game.playingPiece) => plies < MaxPlies
    /\ \E r \in {update(MessageReceived(piece, MoveText(mv)), DriverSession(game))} :
        /\ call' = [tag |-> "update", game |-> game, piece |-> piece,
                    move |-> mv, state |-> r[1], effects |-> r[2]]
        /\ game' = r[1].game
        /\ plies' = IF r[1].game # game THEN plies + 1 ELSE plies
        /\ accepted' = IF r[1].game # game THEN accepted + 1 ELSE accepted
        /\ UNCHANGED <<rowVars, serverVars>>

NextReceive == \E piece \in Piece, mv \in Move : Receive(piece, mv)

SpecRelay == InitGame /\ [][NextReceive]_vars

\* every opening replays without a rejection and ends in a Playing game
OpeningsArePlayable ==
    \A o \in Openings :
        /\ isRight(Replay(initGame, o, 1))
        /\ Replay(initGame, o, 1).right.tag = "Playing"
-----------------------------------------------------------------------------
(* Properties of the board model and the game engine *)

\* the four directions of a line on the grid: right, down, down-right, down-left
Directions == {<<0, 1>>, <<1, 0>>, <<1, 1>>, <<1, -1>>}

\* cell (i, j) of a rendered grid, zero-based; "-" when empty or off the grid
Cell(grid, i, j) ==
    IF i \in 0..6 /\ j \in 0..6 /\ grid[i + 1][j + 1] # None
    THEN grid[i + 1][j + 1][1]
    ELSE "-"

\* n consecutive cells from (i, j) in direction d all hold piece p
RunAt(grid, p, i, j, d, n) ==
    \A k \in 0..(n - 1) : Cell(grid, i + k * d[1], j + k * d[2]) = p

\* some n consecutive cells of the grid, in one of the four directions, hold p
HasRun(grid, p, n) ==
    \E i \in 0..6, j \in 0..6, d \in Directions : RunAt(grid, p, i, j, d, n)

HasFour(grid) == \E p \in Piece : HasRun(grid, p, 4)

\* the last call of the game driver was made on a Playing game
CalledOnPlaying == call.tag = "advance" /\ call.game.tag = "Playing"

\* ... by the piece to move, into a row with room
LegalCall ==
    /\ CalledOnPlaying
    /\ call.piece = call.game.playingPiece
    /\ numPieces(call.game.board[call.move.row]) < 7

\* C2: advance on a Playing game with a piece other than playingPiece fails
\* with IncorrectPieceError{expected: playingPiece, actual: the piece given},
\* whatever the move and also when the targeted row is full, and the game
\* value is left as it was.
C2_WrongPieceRejected ==
    (CalledOnPlaying /\ call.piece # call.game.playingPiece)
        => /\ call.result = Left([tag |-> "IncorrectPieceError",
                                  expected |-> call.game.playingPiece,
                                  actual |-> call.piece])
           /\ game = call.game

\* a wrong-piece call aimed at a full row was rejected with IncorrectPieceError
C2_Witness ==
    /\ CalledOnPlaying
    /\ call.piece # call.game.playingPiece
    /\ numPieces(call.game.board[call.move.row]) = 7
    /\ isLeft(call.result)
    /\ call.result.left.tag = "IncorrectPieceError"

\* C3: a move by the piece to move into a row with room returns Over exactly
\* when the rendered grid of the resulting board holds four consecutive cells
\* of one piece in a row, a column or a diagonal, and otherwise returns
\* Playing on the resulting board with the other piece to move.
C3_OverIffFour ==
    LegalCall
        => /\ isRight(call.result)
           /\ call.result.right.board =
                 [call.game.board EXCEPT ![call.move.row] =
                     addPiece(call.piece, call.move.side, @).right]
           /\ (call.result.right.tag = "Over")
                 <=> HasFour(toGrid(call.result.right.board))
           /\ call.result.right.tag \in {"Over", "Playing"}
           /\ call.result.right.tag = "Playing"
                 => call.result.right.playingPiece = nextPiece(call.piece)

\* a legal move ended the game on a run of five
C3_Witness ==
    /\ LegalCall
    /\ isRight(call.result)
    /\ call.result.right.tag = "Over"
    /\ HasRun(toGrid(call.result.right.board), call.piece, 5)

\* C4: whenever a game reached from initGame() becomes Over, the recorded
\* winner is the piece that just movers and owns a 4-in-a-row on the final
\* board.
C4_WinnerOwnsRun ==
    (LegalCall /\ isRight(call.result) /\ call.result.right.tag = "Over")
        => /\ call.result.right.winner = call.piece
           /\ HasRun(toGrid(call.result.right.board), call.result.right.winner, 4)

\* C6: from the empty row every insertion up to the seventh succeeds, on
\* either side, and every later one fails with RowFullError; the row never
\* holds more than 7 pieces, and neither does any row of a board that advance
\* has produced.
C6_RowCapacity ==
    /\ \A r \in RowIndex : numPieces(game.board[r]) <= 7
    /\ numPieces(row) = inserted
    /\ inserted <= 7
    /\ rowCall.tag = "addPiece"
         => /\ numPieces(rowCall.row) < 7 => isRight(rowCall.result)
            /\ numPieces(rowCall.row) >= 7 => rowCall.result = Left(RowFullError)
            /\ isLeft(rowCall.result) => inserted = 7

\* an eighth insertion into a row filled from both sides was rejected
C6_Witness ==
    /\ rowCall.tag = "addPiece"
    /\ inserted = 7
    /\ Len(row.left) > 0 /\ Len(row.right) > 0
    /\ rowCall.result = Left(RowFullError)
-----------------------------------------------------------------------------
(* Properties of the session *)

\* the kinds of a list of effects, in order
Kinds(effects) == [k \in 1..Len(effects) |-> effects[k].eff]

\* what reaches the peers when message goes to the sockets ws, in that order,
\* each only if it is open
Delivered(message, ws) ==
    IF ws = <<>>
    THEN <<>>
    ELSE (IF conn[Head(ws)] = "OPEN"
          THEN <<[to |-> Head(ws), message |-> message]>>
          ELSE <<>>) \o
         (IF Len(ws) > 1 /\ conn[ws[2]] = "OPEN"
          THEN <<[to |-> ws[2], message |-> message]>>
          ELSE <<>>)

\* the last event dispatched action tag on a session in state pre
Handled(tag, pre) == last.action.tag = tag /\ last.pre.tag = pre

\* the move a payload carries, if it is the text of a Move
IsMoveText(data, mv) == data = JsonObject([row |-> mv.row, side |-> mv.side])

\* C1: in a match the accepted moves alternate X, O, X, ... from X, whatever
\* the order in which the peers' messages arrive; a message tagged with the
\* piece that is not to move leaves the session state as it was and yields no
\* persist and no broadcast effect (nothing is sent, nothing is issued).
C1_TurnsAlternate ==
    /\ \A k \in 1..Len(movers) : movers[k] = (IF k % 2 = 1 THEN "X" ELSE "O")
    /\ (/\ Handled("MessageReceived", "Started")
        /\ last.pre.game.tag = "Playing"
        /\ last.action.playerPiece # last.pre.game.playingPiece)
          => /\ state = last.pre
             /\ \A k \in 1..Len(last.effects) :
                    last.effects[k].eff \notin {"saveMove", "broadcast"}
             /\ last.sent = <<>>

\* after X and O have both moved, a move sent out of turn was turned down
C1_Witness ==
    /\ Handled("MessageReceived", "Started")
    /\ Len(movers) >= 2
    /\ last.pre.game.tag = "Playing"
    /\ last.action.playerPiece # last.pre.game.playingPiece
    /\ \E mv \in Move : IsMoveText(last.action.data, mv)

\* C5: advance on an Over game fails with GameOverError for every piece and
\* move; once the match is Over a MessageReceived changes nothing of the
\* session, yields only a log and sends nothing; only PlayerLeft takes the
\* session out of that state.
C5_OverIsFinal ==
    /\ (state.tag = "Started" /\ state.game.tag = "Over")
          => \A piece \in Piece, mv \in Move :
                advance(state.game, piece, mv) = Left([tag |-> "GameOverError"])
    /\ (Handled("MessageReceived", "Started") /\ last.pre.game.tag = "Over")
          => /\ state = last.pre
             /\ Kinds(last.effects) = <<"logError">>
             /\ last.sent = <<>>
    /\ (/\ last.action.tag # "None"
        /\ last.pre.tag = "Started"
        /\ last.pre.game.tag = "Over"
        /\ state # last.pre)
          => last.action.tag = "PlayerLeft" /\ state = Empty

\* a move arrived after the match was over
C5_Witness ==
    /\ Handled("MessageReceived", "Started")
    /\ last.pre.game.tag = "Over"
    /\ \E mv \in Move : IsMoveText(last.action.data, mv)

\* C7: PlayerJoined(p1) on Empty yields WaitingForOpponent with p1 as X and
\* the effects [send Connected{X} to p1, log]; PlayerJoined(p2) on that
\* yields Ready with playerX = p1, playerO = p2 and the effects
\* [send Connected{O} to p2, request game creation, log]; each peer is told
\* its own piece only, and the creation request is issued.
C7_Matchmaking ==
    /\ Handled("PlayerJoined", "Empty")
          => /\ state = [tag |-> "WaitingForOpponent",
                          playerX |-> last.action.player]
             /\ Kinds(last.effects) = <<"send", "logDebug">>
             /\ last.effects[1] =
                    [eff |-> "send", ws |-> last.action.player,
                     message |-> [tag |-> "Connected", piece |-> "X"]]
             /\ last.sent = <<[to |-> last.action.player,
                               message |-> [tag |-> "Connected", piece |-> "X"]]>>
    /\ Handled("PlayerJoined", "WaitingForOpponent")
          => /\ state = [tag |-> "Ready", playerX |-> last.pre.playerX,
                          playerO |-> last.action.player]
             /\ Kinds(last.effects) = <<"send", "startGame", "logDebug">>
             /\ last.effects[1] =
                    [eff |-> "send", ws |-> last.action.player,
                     message |-> [tag |-> "Connected", piece |-> "O"]]
             /\ last.sent = <<[to |-> last.action.player,
                               message |-> [tag |-> "Connected", piece |-> "O"]]>>
             /\ pending # <<>>
             /\ pending[Len(pending)] = [op |-> "insertGame"]

\* a second peer joined a waiting first peer
C7_Witness ==
    /\ Handled("PlayerJoined", "WaitingForOpponent")
    /\ state.tag = "Ready"
    /\ state.playerX # state.playerO

\* C8: GameStarted(game, gameId) on Ready yields Started with the same
\* players and the action's game and gameId, and the effects
\* [subscribe X, subscribe O, broadcast GameUpdate{game}]; the broadcast acts
\* on the Started state: the snapshot goes to playerX and playerO, each if
\* open.
C8_GameStarted ==
    Handled("GameStarted", "Ready")
        => /\ state = [tag |-> "Started", playerX |-> last.pre.playerX,
                        playerO |-> last.pre.playerO,
                        game |-> last.action.game,
                        gameId |-> last.action.gameId]
           /\ last.effects =
                <<[eff |-> "subscribe", playerPiece |-> "X", ws |-> last.pre.playerX],
                  [eff |-> "subscribe", playerPiece |-> "O", ws |-> last.pre.playerO],
                  [eff |-> "broadcast",
                   message |-> [tag |-> "GameUpdate", game |-> last.action.game]]>>
           /\ last.sent =
                Delivered([tag |-> "GameUpdate", game |-> last.action.game],
                          <<last.pre.playerX, last.pre.playerO>>)
           /\ listeners[last.pre.playerX] = <<"X">>
           /\ listeners[last.pre.playerO] = <<"O">>

\* a match started and both peers got the first snapshot
C8_Witness ==
    /\ Handled("GameStarted", "Ready")
    /\ state.tag = "Started"
    /\ Len(last.sent) = 2

\* the peer of the session that is not the one of piece
OtherPlayer(st, piece) == IF piece = "X" THEN st.playerO ELSE st.playerX

\* C9 as stated: PlayerLeft on Started yields Empty and exactly one effect,
\* the notification of the other peer with OpponentLeft.
C9_OneEffect ==
    Handled("PlayerLeft", "Started")
        => /\ state = Empty
           /\ last.effects =
                <<[eff |-> "send", message |-> [tag |-> "OpponentLeft"],
                   ws |-> OtherPlayer(last.pre, last.action.playerPiece)]>>

\* C9, amended: PlayerLeft on Started yields Empty and exactly two effects, a
\* log and then the notification of the other peer with OpponentLeft;
\* OpponentLeft is the one message sent, to the other peer if its socket is
\* open, and never to the socket whose close raised the action.
C9_LogThenNotify ==
    Handled("PlayerLeft", "Started")
        => /\ state = Empty
           /\ Kinds(last.effects) = <<"logDebug", "send">>
           /\ last.effects[2] =
                [eff |-> "send", message |-> [tag |-> "OpponentLeft"],
                 ws |-> OtherPlayer(last.pre, last.action.playerPiece)]
           /\ last.sent =
                Delivered([tag |-> "OpponentLeft"],
                          <<OtherPlayer(last.pre, last.action.playerPiece)>>)
           /\ \A k \in 1..Len(last.sent) : last.sent[k].to # last.from

\* playerX left a match and playerO was told
C9_Witness ==
    /\ Handled("PlayerLeft", "Started")
    /\ last.action.playerPiece = "X"
    /\ last.from = last.pre.playerX
    /\ last.sent = <<[to |-> last.pre.playerO, message |-> [tag |-> "OpponentLeft"]]>>

\* C10: a MessageReceived with a Move that advance accepts, on Started,
\* yields Started with only game changed, game being the result of advance,
\* and the effects [persist the move for the gameId and the moving piece,
\* broadcast GameUpdate with the new game]; the update goes to both peers.
C10_AcceptedMove ==
    Handled("MessageReceived", "Started")
        => \A mv \in Move :
            (/\ IsMoveText(last.action.data, mv)
             /\ isRight(advance(last.pre.game, last.action.playerPiece, mv)))
              => /\ state.tag = "Started"
                 /\ state.playerX = last.pre.playerX
                 /\ state.playerO = last.pre.playerO
                 /\ state.gameId = last.pre.gameId
                 /\ state.game =
                      advance(last.pre.game, last.action.playerPiece, mv).right
                 /\ last.effects =
                      <<[eff |-> "saveMove", gameId |-> last.pre.gameId,
                         move |-> mv, piece |-> last.action.playerPiece],
                        [eff |-> "broadcast",
                         message |-> [tag |-> "GameUpdate", game |-> state.game]]>>
                 /\ last.sent =
                      Delivered([tag |-> "GameUpdate", game |-> state.game],
                                <<state.playerX, state.playerO>>)

\* O's move was accepted and both peers got the update
C10_Witness ==
    /\ Handled("MessageReceived", "Started")
    /\ state.tag = "Started"
    /\ state.game # last.pre.game
    /\ last.action.playerPiece = "O"
    /\ Len(last.sent) = 2

\* C11: every row of player_move holds the id of a match and the piece, the
\* side and the row of a move.
C11_RecordsHoldMoves ==
    \A rec \in BagToSet(db.moves) :
        \E g \in 1..db.games, p \in Piece, mv \in Move :
            rec = [game_id |-> g, piece |-> p, side |-> mv.side, row |-> mv.row]

\* the last event dispatched an action that the protocol does not allow in
\* the state it found
OutOfProtocol ==
    \/ last.action.tag = "PlayerJoined" /\ last.pre.tag \in {"Ready", "Started"}
    \/ /\ last.action.tag = "GameStarted"
       /\ last.pre.tag \in {"Empty", "WaitingForOpponent", "Started"}
    \/ /\ last.action.tag = "MessageReceived"
       /\ last.pre.tag \in {"Empty", "WaitingForOpponent", "Ready"}

\* update returns the state it was given and one logError
OnlyLogs(action, st) ==
    LET r == update(action, st)
    IN  r[1] = st /\ Kinds(r[2]) = <<"logError">>

\* C12: PlayerJoined in Ready or Started, GameStarted outside Ready and
\* MessageReceived outside Started leave the session state as it was and
\* yield exactly one effect, a log; nothing is sent to a peer and no statement
\* is issued.  This holds of the dispatch that met such an action and of
\* update on every state in which the session awaits an event.
C12_RejectsChangeNothing ==
    /\ OutOfProtocol
        => /\ state = last.pre
           /\ Kinds(last.effects) = <<"logError">>
           /\ last.sent = <<>>
    /\ (Idle /\ state.tag \in {"Ready", "Started"})
        => \A ws \in Sockets : OnlyLogs(PlayerJoined(ws), state)
    /\ (Idle /\ state.tag # "Ready")
        => \A id \in 0..db.games : OnlyLogs(GameStarted(initGame, id), state)
    /\ (Idle /\ state.tag # "Started")
        => \A piece \in Piece, ws \in Sockets :
              \A data \in RawData(ws) :
                  OnlyLogs(MessageReceived(piece, data), state)

\* a GameStarted arrived after the session had emptied
C12_Witness ==
    /\ OutOfProtocol
    /\ last.action.tag = "GameStarted"
    /\ last.pre.tag = "Empty"

\* the payload is the text of no Move: not JSON, or JSON whose row is none of
\* row1..row7 or whose side is neither left nor right
Undecodable(data) == \A mv \in Move : ~IsMoveText(data, mv)

\* the last event dispatched a MessageReceived with such a payload
Dropped == last.action.tag = "MessageReceived" /\ Undecodable(last.action.data)

\* C13: a MessageReceived whose payload is not the text of a Move is dropped
\* in every session state: the event changes neither the session state nor
\* the game, the subscriptions, the statements in flight or the database, its
\* only effect is a log and nothing is sent; so the messages that follow are
\* handled as if it had not arrived.
C13_BadPayloadDropped ==
    [][Dropped'
        => /\ state' = state
           /\ last'.pre = state
           /\ listeners' = listeners
           /\ pending' = pending
           /\ db' = db
           /\ conn' = conn
           /\ movers' = movers
           /\ Kinds(last'.effects) = <<"logError">>
           /\ last'.sent = <<>>
           /\ \A piece \in Piece, ws \in Sockets :
                 OnlyLogs(MessageReceived(piece, InvalidData(ws)), state)]_vars

\* the peer to move sent a row that is no row while the match was on
C13_Witness ==
    /\ Dropped
    /\ last.action.data.json
    /\ last.pre.tag = "Started"
    /\ last.pre.game.tag = "Playing"
    /\ last.action.playerPiece = last.pre.game.playingPiece
    /\ Len(movers) > 0

\* what the effects send when each of them runs on the session state st
RECURSIVE SentBy(_, _, _)
SentBy(effects, k, st) ==
    IF k > Len(effects)
    THEN <<>>
    ELSE (CASE effects[k].eff = "send" ->
                  Delivered(effects[k].message, <<effects[k].ws>>)
            [] effects[k].eff = "broadcast" ->
                  Delivered(effects[k].message,
                            CASE st.tag = "Started" -> <<st.playerX, st.playerO>>
                              [] st.tag = "WaitingForOpponent" -> <<st.playerX>>
                              [] OTHER -> <<>>)
            [] OTHER -> <<>>)
         \o SentBy(effects, k + 1, st)

\* C14: a dispatch is one call of update followed by its effects, and update
\* is not entered again before the last effect has run: the session state
\* after the event is the state that call returned, every effect has run on
\* that state, and what an effect raises is left for a later event (the INSERT
\* of startGame is in flight while the session is still Ready, the listeners
\* of subscribe are registered and have dispatched nothing).
C14_NoReentry ==
    last.action.tag # "None"
        => /\ state = update(last.action, last.pre)[1]
           /\ last.effects = update(last.action, last.pre)[2]
           /\ last.sent = SentBy(last.effects, 1, state)
           /\ (\E k \in 1..Len(last.effects) : last.effects[k].eff = "startGame")
                => /\ state.tag = "Ready"
                   /\ pending # <<>>
                   /\ pending[Len(pending)] = [op |-> "insertGame"]
           /\ \A k \in 1..Len(last.effects) :
                 last.effects[k].eff = "subscribe"
                    => /\ state.tag = "Started"
                       /\ state.game = last.action.game
                       /\ last.effects[k].playerPiece
                            = listeners[last.effects[k].ws][Len(listeners[last.effects[k].ws])]

\* the second match started while the INSERT of a move of the first was
\* still in flight
C14_Witness ==
    /\ Handled("GameStarted", "Ready")
    /\ db.games = 2
    /\ Len(last.sent) = 2
    /\ \E k \in 1..Len(pending) : pending[k].op = "insertMove"

\* the pieces on the board of a game
piecesOn(board) ==
    LET RECURSIVE sum(_)
        sum(rs) == IF rs = {} THEN 0
                   ELSE LET r == CHOOSE x \in rs : TRUE
                        IN  numPieces(board[r]) + sum(rs \ {r})
    IN  sum(RowIndex)

\* the last event was the failure of the INSERT of a move
MoveWriteFailed ==
    /\ last.action.tag = "None"
    /\ "failed" \in DOMAIN last.action
    /\ last.action.failed.op = "insertMove"

\* the match holds every move it has accepted, and the turn has passed after
\* each of them
KeepsMoves ==
    state.tag = "Started"
        => /\ piecesOn(state.game.board) = Len(movers)
           /\ state.game.tag = "Playing"
                => state.game.playingPiece
                     = (IF Len(movers) % 2 = 0 THEN "X" ELSE "O")

C16_NeverPairedWithClosed ==
    Handled("PlayerJoined", "WaitingForOpponent") => conn[state.playerX] = "OPEN"

\* C17: the GameStarted that the callbacks of startGame dispatch carries a new
\* game and the id of the match row that startGame inserted, the newest row
\* of game; processed in Ready it makes the session Started with that game
\* and id.
C17_GameStartedCarriesMatchId ==
    last.action.tag = "GameStarted"
        => /\ last.action.game = initGame
           /\ last.action.gameId = db.games
           /\ last.pre.tag = "Ready"
                => /\ state.tag = "Started"
                   /\ state.game = initGame
                   /\ state.gameId = db.games

\* the driver's last message was a move of the piece to move into a row that
\* held 7 pieces
FullRowMove ==
    /\ call.tag = "update"
    /\ call.game.tag = "Playing"
    /\ call.piece = call.game.playingPiece
    /\ numPieces(call.game.board[call.move.row]) >= 7

\* C18: a move of the piece to move into a row that holds 7 pieces fails with
\* RowFullError and changes nothing: the session is the same Started state,
\* with the same game and the same piece to move, the only effect is a log,
\* and a move of the same piece into any row that is not full is accepted
\* afterwards.
C18_FullRowRejected ==
    FullRowMove
        => /\ advance(call.game, call.piece, call.move) = Left(RowFullError)
           /\ call.state = DriverSession(call.game)
           /\ game = call.game
           /\ Kinds(call.effects) = <<"logError">>
           /\ \E r \in RowIndex : numPieces(game.board[r]) < 7
           /\ \A r \in RowIndex, s \in RowSide :
                numPieces(game.board[r]) < 7
                  => LET next == update(MessageReceived(call.piece,
                                                        MoveText([row |-> r, side |-> s])),
                                        call.state)
                     IN  /\ next[1].game # game
                         /\ numPieces(next[1].game.board[r])
                              = numPieces(game.board[r]) + 1
                         /\ Kinds(next[2]) = <<"saveMove", "broadcast">>

\* after an accepted move the piece to move played into the full row
C18_Witness ==
    /\ FullRowMove
    /\ plies > 0
    /\ call.state.game = call.game

\* position k of rowIndexes is the row of the last call of the game driver
IsCalledRow(k) == rowIndexes[k] = call.move.row

\* row r renders as 7 cells: left in stored order from column 0, right in
\* stored order up to column 6, empty cells between them
RendersAs(cells, r) ==
    /\ Len(cells) = 7
    /\ \A j \in 0..6 :
          cells[j + 1] =
            (IF j < Len(r.left)
             THEN <<r.left[j + 1]>>
             ELSE IF j >= 7 - Len(r.right)
                  THEN <<r.right[j - (7 - Len(r.right)) + 1]>>
                  ELSE <<>>)

\* C19: every row of the rendered grid has 7 cells, the left list in stored
\* order in the first columns, the right list in stored order in the last
\* columns and empty cells between; an accepted left insertion puts the new
\* piece in column 0 and moves the earlier left pieces of that row one column
\* to the right, an accepted right insertion puts it in column 6 and moves
\* the earlier right pieces one column to the left; the pieces of the other
\* side keep their columns and the other rows are unchanged.
C19_Rendering ==
    /\ Len(toGrid(game.board)) = 7
    /\ \A k \in 1..7 : RendersAs(toGrid(game.board)[k], game.board[rowIndexes[k]])
    /\ (call.tag = "advance" /\ isRight(call.result))
        => LET before == toGrid(call.game.board)
               after == toGrid(game.board)
               old == call.game.board[call.move.row]
           IN  \A k \in 1..7 :
                 IF ~IsCalledRow(k)
                 THEN after[k] = before[k]
                 ELSE IF call.move.side = "left"
                      THEN /\ after[k][1] = <<call.piece>>
                           /\ \A j \in 1..Len(old.left) :
                                 after[k][j + 1] = before[k][j]
                           /\ \A j \in (8 - Len(old.right))..7 :
                                 after[k][j] = before[k][j]
                      ELSE /\ after[k][7] = <<call.piece>>
                           /\ \A j \in (8 - Len(old.right))..7 :
                                 after[k][j - 1] = before[k][j]
                           /\ \A j \in 1..Len(old.left) :
                                 after[k][j] = before[k][j]

\* a piece went in on the left of a row that held pieces of both sides
C19_Witness ==
    /\ call.tag = "advance"
    /\ isRight(call.result)
    /\ call.move.side = "left"
    /\ Len(call.game.board[call.move.row].left) >= 1
    /\ Len(call.game.board[call.move.row].right) >= 1

\* C20: the session tag changes only from Empty to WaitingForOpponent and
\* from WaitingForOpponent to Ready, by PlayerJoined, from Ready to Started,
\* by GameStarted, and from any state to Empty, by PlayerLeft.  Started is
\* entered only from Ready, with the players of Ready and a new game; while
\* the session is Started its players and gameId stay and its game changes
\* only by a MessageReceived, never by a GameStarted; it leaves Started only
\* for Empty, which holds no game.
C20_Lifecycle ==
    [][/\ state'.tag # state.tag
            => /\ last'.pre = state
               /\ \/ /\ state.tag = "Empty"
                     /\ state'.tag = "WaitingForOpponent"
                     /\ last'.action.tag = "PlayerJoined"
                  \/ /\ state.tag = "WaitingForOpponent"
                     /\ state'.tag = "Ready"
                     /\ last'.action.tag = "PlayerJoined"
                  \/ /\ state.tag = "Ready"
                     /\ state'.tag = "Started"
                     /\ last'.action.tag = "GameStarted"
                     /\ state'.playerX = state.playerX
                     /\ state'.playerO = state.playerO
                     /\ state'.game = initGame
                  \/ /\ state' = Empty
                     /\ last'.action.tag = "PlayerLeft"
       /\ (state.tag = "Started" /\ state'.tag = "Started")
            => /\ state'.playerX = state.playerX
               /\ state'.playerO = state.playerO
               /\ state'.gameId = state.gameId
               /\ state'.game # state.game => last'.action.tag = "MessageReceived"
       /\ state.tag = "Started"
            => \A id \in 0..db.games :
                  update(GameStarted(initGame, id), state)[1] = state]_vars

\* the second match began with a new game after moves of the first had been
\* written
C20_Witness ==
    /\ Handled("GameStarted", "Ready")
    /\ state.tag = "Started"
    /\ state.game = initGame
    /\ db.games = 2
    /\ db.moves # EmptyBag

\* the sockets a session state holds
Players(st) ==
    CASE st.tag = "Empty" -> {}
      [] st.tag = "WaitingForOpponent" -> {st.playerX}
      [] OTHER -> {st.playerX, st.playerO}

\* the last event dispatched a MessageReceived that changed the game
MoveApplied ==
    /\ Handled("MessageReceived", "Started")
    /\ state # last.pre

\* the last event dispatched a PlayerLeft that emptied a session
SessionReset ==
    /\ last.action.tag = "PlayerLeft"
    /\ last.pre.tag # "Empty"
    /\ state = Empty

\* C21: every MessageReceived that changes the game and every PlayerLeft that
\* resets the session comes from a socket that is playerX or playerO of the
\* session the action finds; a socket subscribed in an earlier match neither
\* moves in nor resets a session of other peers.
C21_SessionIsolation ==
    (MoveApplied \/ SessionReset) => last.from \in Players(last.pre)

\* some occupied cell of the grid starts four consecutive cells of its piece
\* in one of the four directions
HoldsFour(grid) ==
    \E i \in 0..6, j \in 0..6 :
        /\ Cell(grid, i, j) # "-"
        /\ \E d \in Directions : RunAt(grid, Cell(grid, i, j), i, j, d, 4)

\* C22: in every game reached from initGame() through accepted advance calls,
\* the board of a Playing game holds no four consecutive cells of one piece in
\* a row, a column or a diagonal, and the board of an Over game holds at least
\* one such run; so does every game that advance returns.
C22_FourIffOver ==
    /\ (game.tag = "Over") <=> HoldsFour(toGrid(game.board))
    /\ game.tag \in {"Playing", "Over"}
    /\ (call.tag = "advance" /\ isRight(call.result))
        => /\ game = call.result.right
           /\ call.game.tag = "Playing"

\* a move ended the game by shifting the other piece's pieces into a run: the
\* final board holds a run, and none of the recorded winner
C22_Witness ==
    /\ call.tag = "advance"
    /\ isRight(call.result)
    /\ game.tag = "Over"
    /\ HasFour(toGrid(game.board))
    /\ ~HasRun(toGrid(game.board), game.winner, 4)
    /\ ~HasFour(toGrid(call.game.board))

\* the pieces of kind p in a list of pieces
countIn(ps, p) == Cardinality({k \in 1..Len(ps) : ps[k] = p})

\* the pieces of kind p in a row
countInRow(r, p) == countIn(r.left, p) + countIn(r.right, p)

\* the pieces of kind p on a board
countOn(board, p) ==
    LET RECURSIVE sum(_)
        sum(k) == IF k > Len(rowIndexes) THEN 0
                  ELSE countInRow(board[rowIndexes[k]], p) + sum(k + 1)
    IN  sum(1)

\* C23: in every game reached from initGame() the board holds as many pieces
\* as moves were accepted, no row holds more than 7 of them and the board no
\* more than 49; in a Playing game there are as many X as O when X is to move
\* and one X more when O is to move; an accepted move adds one piece of the
\* moving piece's kind to the row of the move and leaves the other six rows as
\* they were, and a rejected move leaves the board as it was.
C23_PieceCount ==
    /\ piecesOn(game.board) = accepted
    /\ countOn(game.board, "X") + countOn(game.board, "O") = accepted
    /\ \A r \in RowIndex : numPieces(game.board[r]) <= MaxRowPieces
    /\ piecesOn(game.board) <= 7 * MaxRowPieces
    /\ game.tag = "Playing"
        => countOn(game.board, "X")
             = countOn(game.board, "O")
                 + (IF game.playingPiece = "X" THEN 0 ELSE 1)
    /\ (call.tag = "advance" /\ isRight(call.result))
        => /\ \A r \in RowIndex \ {call.move.row} :
                 game.board[r] = call.game.board[r]
           /\ countInRow(game.board[call.move.row], call.piece)
                = countInRow(call.game.board[call.move.row], call.piece) + 1
           /\ countInRow(game.board[call.move.row], nextPiece(call.piece))
                = countInRow(call.game.board[call.move.row], nextPiece(call.piece))
           /\ numPieces(game.board[call.move.row])
                = numPieces(call.game.board[call.move.row]) + 1
    /\ (call.tag = "advance" /\ isLeft(call.result))
        => game.board = call.game.board

\* the twelfth move, by O on the right of a row that held pieces of both
\* kinds, left six X and six O on the board with X to move
C23_Witness ==
    /\ call.tag = "advance"
    /\ isRight(call.result)
    /\ call.piece = "O"
    /\ call.move.side = "right"
    /\ countInRow(call.game.board[call.move.row], "X") >= 1
    /\ countInRow(call.game.board[call.move.row], "O") >= 1
    /\ accepted = 12
    /\ game.tag = "Playing"
    /\ game.playingPiece = "X"
    /\ countOn(game.board, "X") = 6

=============================================================================
